---- MODULE Spec2Model ----
(***************************************************************************)
(* Model of PaperTrader.py (swing-trader paper bot).                       *)
(*                                                                         *)
(* Persistent state: the two CSV files buys.csv (the ledger of open        *)
(* positions) and exits.csv (the append-only exit history), the wall       *)
(* clock and the environment configuration.  Run-local state: the locals   *)
(* of run_bot and the position of the run inside run_bot.                  *)
(*                                                                         *)
(* Prices are whole dollars (exactly representable doubles); tickers are   *)
(* the numbers 1..MaxTicker, whose numeric order stands for the sorted     *)
(* order of the symbols returned by get_sp_list.                           *)
(***************************************************************************)
EXTENDS Integers, Sequences, FiniteSets, TLC

VARIABLES
    STARTING_CASH,      \* line 15, read from the environment at load
    MAX_POSITION_SIZE,  \* line 21, as a percentage (0.05 is 5)
    now,                \* datetime.now(): [day, tod], tod = 0 is 00:00:00 sharp
    buys_csv,           \* the file BUY_LOG
    exits_csv,          \* the file EXIT_LOG
    runs,               \* number of invocations of run_bot so far
    pc,                 \* where the current run of run_bot stands
    portfolio,          \* run_bot local, line 129
    tickers,            \* run_bot local, line 130
    ti,                 \* number of tickers the loop of line 136 has taken
    scanned,            \* the tickers passed to scan_indicators in this run
    balance,            \* run_bot local, line 131
    buy_msgs,           \* run_bot local, line 132
    sell_msgs,          \* run_bot local, line 133
    df,                 \* run_bot local, lines 140 and 158
    reasons,            \* run_bot local, line 140
    updated_portfolio,  \* run_bot local, line 153
    idx,                \* number of rows of updated_portfolio iterated, line 155
    row,                \* run_bot local, line 155
    exit_reason,        \* run_bot local, line 163
    to_keep,            \* run_bot local, line 154
    mail                \* what send_email delivered in the latest run

vars == <<STARTING_CASH, MAX_POSITION_SIZE, now, buys_csv, exits_csv, runs, pc,
          portfolio, tickers, ti, scanned, balance, buy_msgs, sell_msgs, df, reasons,
          updated_portfolio, idx, row, exit_reason, to_keep, mail>>

locals == <<portfolio, tickers, ti, scanned, balance, buy_msgs, sell_msgs, df, reasons,
            updated_portfolio, idx, row, exit_reason, to_keep>>

config == <<STARTING_CASH, MAX_POSITION_SIZE>>

-----------------------------------------------------------------------------
(* Bounds *)

MaxTicker == 2
MaxRuns == 2
MaxCalls == 2

(* Closing prices the price-series provider may report during the runs. *)
Prices == {100, 111}

(* Closing prices for the exit rules taken on their own: both sides of the *)
(* two price thresholds of an entry at 100, the thresholds included.       *)
ExitPrices == {92, 93, 100, 110, 111}

(* Instants at which the scheduler may invoke the bot: calendar day and    *)
(* whether the time of day is past 00:00:00.                               *)
Instants == { [day |-> 0, tod |-> 1], [day |-> 14, tod |-> 0],
              [day |-> 14, tod |-> 1] }

(* Instants for the exit rules taken on their own. *)
ExitInstants == Instants \cup { [day |-> 20, tod |-> 1] }

(* Environments (STARTING_CASH, MAX_POSITION_SIZE in percent) of small     *)
(* accounts, in which the cash floor of line 145 binds after one or two    *)
(* buys and the allocation buys zero, one or two shares.                   *)
Configs == { [cash |-> 180, pct |-> 60], [cash |-> 250, pct |-> 80] }

MAX_HOLD_DAYS == 14

-----------------------------------------------------------------------------
(* Helpers *)

None == "None"

Range(s) == { s[i] : i \in 1..Len(s) }

RECURSIVE SumCost(_)
(* (portfolio["price"] * portfolio["shares"]).sum() *)
SumCost(rows) ==
    IF rows = << >> THEN 0
    ELSE Head(rows).price * Head(rows).shares + SumCost(Tail(rows))

RECURSIVE SortedSeq(_)
(* sorted(set(...)) *)
SortedSeq(S) ==
    IF S = {} THEN << >>
    ELSE LET m == CHOOSE x \in S : \A y \in S : x <= y
         IN  <<m>> \o SortedSeq(S \ {m})

RECURSIVE Join(_)
(* ", ".join(reasons) *)
Join(s) ==
    IF s = << >> THEN ""
    ELSE IF Len(s) = 1 THEN s[1]
    ELSE s[1] \o ", " \o Join(Tail(s))

RECURSIVE Pow2Floor(_)
(* The largest power of two not above n >= 1. *)
Pow2Floor(n) == IF n < 2 THEN 1 ELSE 2 * Pow2Floor(n \div 2)

-----------------------------------------------------------------------------
(* Files *)

NoFile == [exists |-> FALSE, header |-> FALSE, rows |-> << >>]

(* load_portfolio, lines 87-90.  ok = FALSE stands for the failure of      *)
(* reading a ledger file that carries no column line: read_csv raises, or  *)
(* yields a frame without the column "price" and line 131 raises.          *)
load_portfolio ==
    IF ~buys_csv.exists THEN [ok |-> TRUE, rows |-> << >>]
    ELSE IF ~buys_csv.header THEN [ok |-> FALSE, rows |-> << >>]
    ELSE [ok |-> TRUE, rows |-> buys_csv.rows]

(* row.to_csv(BUY_LOG, mode="a", header=header), lines 97-98 *)
AppendCsv(file, r) ==
    [exists |-> TRUE,
     header |-> IF file.exists THEN file.header ELSE TRUE,
     rows   |-> Append(file.rows, r)]

(* pd.DataFrame(to_keep).to_csv(BUY_LOG, index=False), line 180: a frame   *)
(* built from an empty list has no columns, so no column line is written.  *)
WriteLedger(rows) ==
    [exists |-> TRUE, header |-> rows # << >>, rows |-> rows]

-----------------------------------------------------------------------------
(* Values of the locals *)

NoDf == [kind |-> "none"]        \* df is None
EmptyDf == [kind |-> "empty"]    \* df.empty
FaultDf == [kind |-> "fault"]    \* a series on which the indicator code raises

NoReasons == << >>               \* reasons is None

NoRow == [ticker |-> 0, price |-> 0, entry |-> 0, reason |-> "", shares |-> 0,
          run |-> 0]

NoMail == [sent |-> FALSE, buys |-> << >>, sells |-> << >>]

(* Latest bars of a 250-day series after the indicator columns were added  *)
(* (lines 55-66).  Every indicator takes a value on each side of its       *)
(* threshold, the threshold itself included.                               *)
AllBars ==
    { [kind |-> "bars", Close |-> p, rsi |-> r, macd |-> m, macd_signal |-> 0,
       bb_upper |-> p - u, adx |-> a, sma_200 |-> p - v] :
         p \in Prices, r \in {49, 50}, m \in {0, 1}, u \in {0, 1},
         a \in {15, 16}, v \in {0, 1} }

(* The bars on which at most one of the five entry conditions fails. *)
ScanBars ==
    { b \in AllBars :
        Cardinality({ i \in 1..5 :
            \/ i = 1 /\ b.rsi >= 50
            \/ i = 2 /\ b.macd <= b.macd_signal
            \/ i = 3 /\ b.Close > b.bb_upper
            \/ i = 4 /\ b.adx <= 15
            \/ i = 5 /\ b.Close <= b.sma_200 }) <= 1 }

(* What yf.download of line 49 may deliver. *)
ScanData == {EmptyDf, FaultDf} \cup ScanBars

(* Columns of the frame returned by yf.download. *)
YfColumns == {"Open", "High", "Low", "Close", "Volume"}

(* What yf.download of line 158 may deliver: no data, or a 30-day series   *)
(* given by its columns, its latest close, and the latest MACD line and    *)
(* signal line of its closes (trend, signal), which the frame itself does  *)
(* not carry.                                                              *)
ExitData(closes) ==
    {EmptyDf} \cup
    [kind : {"bars"}, columns : {YfColumns}, Close : closes,
     trend : {0, 1}, signal : {1}]

-----------------------------------------------------------------------------
(* scan_indicators, lines 47-84 *)

(* The reason text of every buy: the five labels of lines 70-78, joined at *)
(* line 146.                                                               *)
SignalReason ==
    Join(<<"RSI<50", "MACD>Signal", "Close<=BB_Upper", "ADX>15", "Close>SMA200">>)

(* lines 67-78 *)
Conditions(latest) ==
    (IF latest.rsi < 50 THEN <<"RSI<50">> ELSE << >>) \o
    (IF latest.macd > latest.macd_signal THEN <<"MACD>Signal">> ELSE << >>) \o
    (IF latest.Close <= latest.bb_upper THEN <<"Close<=BB_Upper">> ELSE << >>) \o
    (IF latest.adx > 15 THEN <<"ADX>15">> ELSE << >>) \o
    (IF latest.Close > latest.sma_200 THEN <<"Close>SMA200">> ELSE << >>)

(* Variant of line 80 that accepts four of the five conditions. *)
ConfluenceFour(r) == IF Len(r) >= 4 THEN r ELSE NoReasons

(* line 80 *)
Confluence(r) == IF Len(r) = 5 THEN r ELSE NoReasons

scan_indicators(data) ==
    IF data.kind = "empty" THEN [df |-> NoDf, reasons |-> NoReasons]   \* line 51
    ELSE IF data.kind = "fault" THEN [df |-> NoDf, reasons |-> NoReasons] \* line 84
    ELSE [df |-> data, reasons |-> Confluence(Conditions(data))]

-----------------------------------------------------------------------------
(* Position sizing, lines 142-145 *)

(* Variant of line 143 that sizes from the cash still available. *)
AllocationLive(cash, pct) == (balance * pct) \div 100

(* STARTING_CASH * MAX_POSITION_SIZE; exact for the environments of Configs *)
(* and for the defaults 10000.0 * 0.05 = 500.0.                            *)
Allocation(cash, pct) == (cash * pct) \div 100

(* int(allocation // price) *)
Shares(allocation, price) == allocation \div price

(* Variant of line 145 without the cash floor. *)
AffordableNoFloor(price, shares, bal) == shares > 0

(* line 145 *)
Affordable(price, shares, bal) == shares > 0 /\ price * shares <= bal

-----------------------------------------------------------------------------
(* Exit rules, lines 165-172 *)

(* latest["Close"] >= buy_price * 1.10, in IEEE-754 double arithmetic.     *)
(* The double 1.10 is 1.1 + 0.4 * 2^-52, so the exact product exceeds      *)
(* 1.1 * buy_price by 0.4 * buy_price * 2^-52.  When 1.1 * buy_price is a  *)
(* whole number c, the product rounds to c only if that excess is at most  *)
(* half a unit in the last place of c, 2^-53 * Pow2Floor(c); otherwise it  *)
(* rounds above c and a close of c does not reach it.                      *)
TakeProfit(close, buy_price) ==
    \/ 10 * close > 11 * buy_price
    \/ /\ 10 * close = 11 * buy_price
       /\ 4 * buy_price <= 5 * Pow2Floor(close)

(* latest["Close"] <= buy_price * 0.93; the double product is exact for    *)
(* every whole buy_price below 400 whose 0.93-fold is whole.               *)
StopLoss(close, buy_price) == 100 * close <= 93 * buy_price

(* datetime.now() - datetime.strptime(entry_date, "%Y-%m-%d")              *)
(*     > timedelta(days=MAX_HOLD_DAYS)                                     *)
MaxHold(t, entry_date) ==
    \/ t.day - entry_date > MAX_HOLD_DAYS
    \/ t.day - entry_date = MAX_HOLD_DAYS /\ t.tod > 0

(* "macd" in df.columns and df["macd"].iloc[-1] < df["macd_signal"].iloc[-1] *)
MacdCrossDown(d) == "macd" \in d.columns /\ d.macd < d.macd_signal

(* f"Max Hold {MAX_HOLD_DAYS} days", line 170 *)
MaxHoldReason == "Max Hold " \o ToString(MAX_HOLD_DAYS) \o " days"

(* Variant of lines 165-172 that tests the holding period first. *)
ExitReasonHoldFirst(r, d, t) ==
    IF MaxHold(t, r.entry) THEN MaxHoldReason
    ELSE IF TakeProfit(d.Close, r.price) THEN "Take Profit 10%"
    ELSE IF StopLoss(d.Close, r.price) THEN "Stop Loss 7%"
    ELSE IF MacdCrossDown(d) THEN "MACD cross down"
    ELSE None

ExitReason(r, d, t) ==
    IF TakeProfit(d.Close, r.price) THEN "Take Profit 10%"
    ELSE IF StopLoss(d.Close, r.price) THEN "Stop Loss 7%"
    ELSE IF MaxHold(t, r.entry) THEN MaxHoldReason
    ELSE IF MacdCrossDown(d) THEN "MACD cross down"
    ELSE None

-----------------------------------------------------------------------------
(* log_buy, lines 93-99, and log_exit, lines 102-108.  The field run of a  *)
(* ledger row and the field pos of an exit record are bookkeeping of the   *)
(* model: they tell apart two positions of one ticker.                     *)

Today == now.day     \* datetime.now().strftime("%Y-%m-%d")

(* The instants of Instants after t. *)
Later(t) ==
    { u \in Instants : u.day > t.day \/ (u.day = t.day /\ u.tod > t.tod) }

BuyRow(ticker, price, reason, shares) ==
    [ticker |-> ticker, price |-> price, entry |-> Today, reason |-> reason,
     shares |-> shares, run |-> runs]

log_buy(ticker, price, reason, shares) ==
    buys_csv' = AppendCsv(buys_csv, BuyRow(ticker, price, reason, shares))

(* line 103 reads the clock anew, after the read of line 169: the date of   *)
(* the record is that of the instant at which log_exit runs.               *)
ExitRow(r, price, reason) ==
    [ticker |-> r.ticker, price |-> price, exit |-> now'.day, reason |-> reason,
     pos |-> r.run]

log_exit(r, price, reason) ==
    exits_csv' = AppendCsv(exits_csv, ExitRow(r, price, reason))

-----------------------------------------------------------------------------
(* State machine of run_bot, lines 124-191 *)

Idle == {"init", "done", "aborted"}

Init ==
    /\ \E c \in Configs : STARTING_CASH = c.cash /\ MAX_POSITION_SIZE = c.pct
    /\ now = [day |-> 0, tod |-> 1]
    /\ buys_csv = NoFile
    /\ exits_csv = NoFile
    /\ runs = 0
    /\ pc = "init"
    /\ portfolio = << >>
    /\ tickers = << >>
    /\ ti = 0
    /\ scanned = << >>
    /\ balance = 0
    /\ buy_msgs = << >>
    /\ sell_msgs = << >>
    /\ df = NoDf
    /\ reasons = NoReasons
    /\ updated_portfolio = << >>
    /\ idx = 0
    /\ row = NoRow
    /\ exit_reason = None
    /\ to_keep = << >>
    /\ mail = NoMail

(* run_bot returns or raises: its locals are gone. *)
ClearLocals ==
    /\ portfolio' = << >>
    /\ tickers' = << >>
    /\ ti' = 0
    /\ scanned' = << >>
    /\ balance' = 0
    /\ buy_msgs' = << >>
    /\ sell_msgs' = << >>
    /\ df' = NoDf
    /\ reasons' = NoReasons
    /\ updated_portfolio' = << >>
    /\ idx' = 0
    /\ row' = NoRow
    /\ exit_reason' = None
    /\ to_keep' = << >>

(* Time passes: between two invocations of the scheduler, and inside a run *)
(* during the downloads and the time.sleep(0.5) of line 150.  The clock is *)
(* read anew at lines 94, 103 and 169.                                     *)
AdvanceClock ==
    /\ \E t \in Later(now) : now' = t
    /\ UNCHANGED <<config, buys_csv, exits_csv, runs, pc, locals, mail>>

(* The symbols of the two index pages read by get_sp_list. *)
SP400 == { t \in 1..MaxTicker : t % 2 = 1 }
SP600 == { t \in 1..MaxTicker : t % 2 = 0 }

(* get_sp_list, lines 29-44: each page is read or its download fails; the  *)
(* symbols found are de-duplicated and sorted.                             *)
get_sp_list ==
    { SortedSeq(a \cup b) : a \in {{}, SP400}, b \in {{}, SP600} }

(* Variant of line 131 that ignores the positions already open. *)
StartBalanceFull(cash, rows) == cash

(* line 131 *)
StartBalance(cash, rows) == cash - SumCost(rows)

(* Variant of line 137 that never skips a ticker. *)
IsOpenNever(ticker, pf) == FALSE

(* line 137 *)
IsOpen(ticker, pf) == ticker \in { r.ticker : r \in Range(pf) }

(* lines 129-133 *)
StartRun ==
    /\ pc \in Idle
    /\ runs < MaxRuns
    /\ runs' = runs + 1
    /\ mail' = NoMail
    /\ IF load_portfolio.ok
       THEN /\ portfolio' = load_portfolio.rows
            /\ tickers' \in get_sp_list
            /\ balance' = StartBalance(STARTING_CASH, load_portfolio.rows)
            /\ pc' = "entry"
            /\ UNCHANGED <<ti, scanned, buy_msgs, sell_msgs, df, reasons, updated_portfolio,
                           idx, row, exit_reason, to_keep>>
       ELSE /\ pc' = "aborted"
            /\ ClearLocals
    /\ UNCHANGED <<config, now, buys_csv, exits_csv>>

(* Variant of the loop of lines 136-150 that ends at the first ticker      *)
(* for which scan_indicators returns no frame.                             *)
ScanTickerStop(source) ==
    /\ pc = "entry"
    /\ ti < Len(tickers)
    /\ LET ticker == tickers[ti + 1] IN
       IF IsOpen(ticker, portfolio)
       THEN /\ ti' = ti + 1
            /\ UNCHANGED <<scanned, df, reasons, buys_csv, buy_msgs, balance>>
       ELSE \E data \in source :
            LET res == scan_indicators(data) IN
            /\ ti' = IF res.df = NoDf THEN Len(tickers) ELSE ti + 1
            /\ scanned' = Append(scanned, ticker)
            /\ df' = res.df
            /\ reasons' = res.reasons
            /\ IF res.reasons # NoReasons
               THEN LET price == res.df.Close
                        allocation == Allocation(STARTING_CASH, MAX_POSITION_SIZE)
                        shares == Shares(allocation, price)
                    IN  IF Affordable(price, shares, balance)
                        THEN /\ log_buy(ticker, price, Join(res.reasons), shares)
                             /\ buy_msgs' = Append(buy_msgs,
                                   [ticker |-> ticker, price |-> price,
                                    reason |-> Join(res.reasons)])
                             /\ balance' = balance - price * shares
                        ELSE UNCHANGED <<buys_csv, buy_msgs, balance>>
               ELSE UNCHANGED <<buys_csv, buy_msgs, balance>>
    /\ UNCHANGED <<config, now, exits_csv, runs, pc, portfolio, tickers,
                   sell_msgs, updated_portfolio, idx, row, exit_reason, to_keep, mail>>

(* One iteration of the loop of lines 136-150, on a series that is one of  *)
(* source.                                                                 *)
ScanTickerOn(source) ==
    /\ pc = "entry"
    /\ ti < Len(tickers)
    /\ ti' = ti + 1
    /\ LET ticker == tickers[ti + 1] IN
       IF IsOpen(ticker, portfolio)
       THEN UNCHANGED <<scanned, df, reasons, buys_csv, buy_msgs, balance>> \* line 138
       ELSE \E data \in source :
            LET res == scan_indicators(data) IN
            /\ scanned' = Append(scanned, ticker)
            /\ df' = res.df
            /\ reasons' = res.reasons
            /\ IF res.reasons # NoReasons
               THEN LET price == res.df.Close
                        allocation == Allocation(STARTING_CASH, MAX_POSITION_SIZE)
                        shares == Shares(allocation, price)
                    IN  IF Affordable(price, shares, balance)
                        THEN /\ log_buy(ticker, price, Join(res.reasons), shares)
                             /\ buy_msgs' = Append(buy_msgs,
                                   [ticker |-> ticker, price |-> price,
                                    reason |-> Join(res.reasons)])
                             /\ balance' = balance - price * shares
                        ELSE UNCHANGED <<buys_csv, buy_msgs, balance>>
               ELSE UNCHANGED <<buys_csv, buy_msgs, balance>>
    /\ UNCHANGED <<config, now, exits_csv, runs, pc, portfolio, tickers,
                   sell_msgs, updated_portfolio, idx, row, exit_reason, to_keep, mail>>

ScanTicker == ScanTickerOn(ScanData)

(* Variant of lines 153-154 that iterates the ledger as it was loaded at   *)
(* line 129.                                                               *)
BeginExitStale ==
    /\ pc = "entry"
    /\ ti = Len(tickers)
    /\ IF load_portfolio.ok
       THEN /\ updated_portfolio' = portfolio
            /\ pc' = "exit"
            /\ to_keep' = << >>
            /\ idx' = 0
            /\ UNCHANGED <<portfolio, tickers, ti, scanned, balance, buy_msgs,
                           sell_msgs, df, reasons, row, exit_reason>>
       ELSE /\ pc' = "aborted"
            /\ ClearLocals
    /\ UNCHANGED <<config, now, buys_csv, exits_csv, runs, mail>>

(* lines 153-154 *)
BeginExit ==
    /\ pc = "entry"
    /\ ti = Len(tickers)
    /\ IF load_portfolio.ok
       THEN /\ updated_portfolio' = load_portfolio.rows
            /\ pc' = "exit"
            /\ to_keep' = << >>
            /\ idx' = 0
            /\ UNCHANGED <<portfolio, tickers, ti, scanned, balance, buy_msgs,
                           sell_msgs, df, reasons, row, exit_reason>>
       ELSE /\ pc' = "aborted"
            /\ ClearLocals
    /\ UNCHANGED <<config, now, buys_csv, exits_csv, runs, mail>>

(* One iteration of the loop of lines 155-178, on a series whose latest    *)
(* close is one of closes.                                                 *)
EvalExitOn(closes) ==
    /\ pc = "exit"
    /\ idx < Len(updated_portfolio)
    /\ idx' = idx + 1
    /\ row' = updated_portfolio[idx + 1]
    /\ \E data \in ExitData(closes) :
          /\ df' = data
          /\ IF data.kind = "empty"
             THEN UNCHANGED <<now, exit_reason, exits_csv, sell_msgs, to_keep>>  \* line 160
             ELSE LET r == updated_portfolio[idx + 1]
                      why == ExitReason(r, data, now)
                  IN  /\ exit_reason' = why
                      /\ IF why # None
                         THEN /\ \E t \in {now} \cup Later(now) : now' = t
                              /\ log_exit(r, data.Close, why)
                              /\ sell_msgs' = Append(sell_msgs,
                                    [ticker |-> r.ticker, price |-> data.Close,
                                     reason |-> why])
                              /\ UNCHANGED to_keep
                         ELSE /\ to_keep' = Append(to_keep, r)
                              /\ UNCHANGED <<now, exits_csv, sell_msgs>>
    /\ UNCHANGED <<config, buys_csv, runs, pc, portfolio, tickers, ti,
                   scanned, balance, buy_msgs, reasons, updated_portfolio, mail>>

EvalExit == EvalExitOn(Prices)

(* Variant of line 180 that goes on to the notification without rewriting  *)
(* the ledger.                                                             *)
PersistSkipped ==
    /\ pc = "exit"
    /\ idx = Len(updated_portfolio)
    /\ pc' = "email"
    /\ UNCHANGED <<config, now, buys_csv, exits_csv, runs, locals, mail>>

(* line 180 *)
Persist ==
    /\ pc = "exit"
    /\ idx = Len(updated_portfolio)
    /\ buys_csv' = WriteLedger(to_keep)
    /\ pc' = "email"
    /\ UNCHANGED <<config, now, exits_csv, runs, locals, mail>>

(* lines 183-189 *)
Summary == [sent |-> TRUE, buys |-> buy_msgs, sells |-> sell_msgs]

(* line 191 with send_email, lines 111-121: the message is delivered and   *)
(* run_bot returns.                                                        *)
EmailDelivered ==
    /\ pc = "email"
    /\ mail' = Summary
    /\ pc' = "done"
    /\ ClearLocals
    /\ UNCHANGED <<config, now, buys_csv, exits_csv, runs>>

(* The SMTP conversation of lines 118-121 raises and the run ends with     *)
(* that exception.                                                         *)
EmailFailed ==
    /\ pc = "email"
    /\ mail' = mail
    /\ pc' = "aborted"
    /\ ClearLocals
    /\ UNCHANGED <<config, now, buys_csv, exits_csv, runs>>

(* send_message of line 121 returns and the QUIT sent on leaving the `with` *)
(* of line 118 is not answered with 221: SMTP.__exit__ raises after the    *)
(* message was delivered.                                                  *)
EmailRaisedAfterDelivery ==
    /\ pc = "email"
    /\ mail' = Summary
    /\ pc' = "aborted"
    /\ ClearLocals
    /\ UNCHANGED <<config, now, buys_csv, exits_csv, runs>>

SendEmail == EmailDelivered \/ EmailFailed \/ EmailRaisedAfterDelivery

(* An unhandled fault inside one of the two loops (the download of line    *)
(* 158 raising, a file that cannot be written, the process being killed):  *)
(* run_bot ends there.                                                     *)
Abort ==
    /\ pc \in {"entry", "exit"}
    /\ pc' = "aborted"
    /\ ClearLocals
    /\ UNCHANGED <<config, now, buys_csv, exits_csv, runs, mail>>

Next ==
    \/ AdvanceClock
    \/ StartRun
    \/ ScanTicker
    \/ BeginExit
    \/ EvalExit
    \/ Persist
    \/ SendEmail
    \/ Abort

Spec == Init /\ [][Next]_vars

TypeOK ==
    /\ pc \in {"init", "entry", "exit", "email", "done", "aborted"}
    /\ balance \in Int
    /\ runs \in 0..MaxRuns

-----------------------------------------------------------------------------
(* The two ledger operations on their own: log_buy and log_exit called     *)
(* directly, with any ticker, on whatever the files hold.                  *)

CallLogBuy ==
    /\ Len(buys_csv.rows) < MaxCalls
    /\ \E ticker \in 1..MaxTicker, price \in Prices :
          log_buy(ticker, price, SignalReason,
                  Shares(Allocation(STARTING_CASH, MAX_POSITION_SIZE), price))
    /\ UNCHANGED <<config, now, exits_csv, runs, pc, locals, mail>>

CallLogExit ==
    /\ Len(exits_csv.rows) < MaxCalls
    /\ now' = now
    /\ \E ticker \in 1..MaxTicker, price \in Prices :
          log_exit([ticker |-> ticker, run |-> runs], price, "Stop Loss 7%")
    /\ UNCHANGED <<config, buys_csv, runs, pc, locals, mail>>

LedgerNext == CallLogBuy \/ CallLogExit

LedgerSpec == Init /\ [][LedgerNext]_vars

-----------------------------------------------------------------------------
(* The exit rules on their own: a run that found one open position in the  *)
(* ledger and an empty universe stands before the loop of line 155; the    *)
(* position, the instant and the fetched series range over ExitPrices and  *)
(* ExitInstants.                                                           *)

ExitInit ==
    /\ \E c \in Configs : STARTING_CASH = c.cash /\ MAX_POSITION_SIZE = c.pct
    /\ now \in ExitInstants
    /\ \E price \in ExitPrices, entry \in { t.day : t \in ExitInstants } :
          LET shares == Shares(Allocation(STARTING_CASH, MAX_POSITION_SIZE), price)
              pos == [ticker |-> 1, price |-> price, entry |-> entry,
                      reason |-> SignalReason,
                      shares |-> shares, run |-> 1]
          IN  /\ entry <= now.day
              /\ Affordable(price, shares, STARTING_CASH)
              /\ buys_csv = AppendCsv(NoFile, pos)
              /\ portfolio = <<pos>>
              /\ updated_portfolio = <<pos>>
              /\ balance = StartBalance(STARTING_CASH, <<pos>>)
    /\ exits_csv = NoFile
    /\ runs = 2
    /\ pc = "exit"
    /\ tickers = << >>
    /\ ti = 0
    /\ scanned = << >>
    /\ buy_msgs = << >>
    /\ sell_msgs = << >>
    /\ df = NoDf
    /\ reasons = NoReasons
    /\ idx = 0
    /\ row = NoRow
    /\ exit_reason = None
    /\ to_keep = << >>
    /\ mail = NoMail

EvalExitAny == EvalExitOn(ExitPrices)

ExitNext == AdvanceClock \/ EvalExitAny \/ Persist

ExitSpec == ExitInit /\ [][ExitNext]_vars

-----------------------------------------------------------------------------
(* Runs in which the only faults are unavailable data: an empty universe   *)
(* (get_sp_list), an empty or faulty series in either loop (ScanData,      *)
(* ExitData).  No download raises, no file operation fails, the process is *)
(* not killed and the mail server accepts the message.  Once run_bot is    *)
(* called the interpreter keeps executing it, so the steps of a run are    *)
(* taken as long as one is enabled.                                        *)

RunStep == ScanTicker \/ BeginExit \/ EvalExit \/ Persist \/ EmailDelivered

QuietNext == AdvanceClock \/ StartRun \/ RunStep

QuietSpec == Init /\ [][QuietNext]_vars /\ WF_vars(RunStep)

-----------------------------------------------------------------------------
(* Position sizing on its own, lines 142-148: a run stands before the loop *)
(* of line 136 with a universe of one ticker and a ledger of positions     *)
(* that earlier runs bought under the same environment and persisted.  The *)
(* environments include the defaults of lines 15 and 21 (10000, 0.05).     *)

MaxHeld == 20

SizeConfigs == Configs \cup { [cash |-> 10000, pct |-> 5] }

(* Price at which the positions already in the ledger were bought. *)
HeldPrice == 24

(* Latest closes of the ticker being sized. *)
SizePrices == {25, 100, 111, 600}

(* Series that pass all five entry conditions, and the empty series. *)
SizeData ==
    {EmptyDf} \cup
    { [kind |-> "bars", Close |-> p, rsi |-> 49, macd |-> 1, macd_signal |-> 0,
       bb_upper |-> p, adx |-> 16, sma_200 |-> p - 1] : p \in SizePrices }

(* Shares of a position that an earlier run bought at HeldPrice. *)
HeldShares == ((STARTING_CASH * MAX_POSITION_SIZE) \div 100) \div HeldPrice

(* n positions in the tickers 2..n+1. *)
Held(n) ==
    [ i \in 1..n |->
        [ticker |-> i + 1, price |-> HeldPrice, entry |-> 0,
         reason |-> SignalReason, shares |-> HeldShares, run |-> 1] ]

SizeInit ==
    /\ \E c \in SizeConfigs : STARTING_CASH = c.cash /\ MAX_POSITION_SIZE = c.pct
    /\ now = [day |-> 0, tod |-> 1]
    /\ \E n \in 0..MaxHeld :
          /\ SumCost(Held(n)) <= STARTING_CASH
          /\ buys_csv = IF n = 0 THEN NoFile ELSE WriteLedger(Held(n))
          /\ portfolio = Held(n)
          /\ balance = StartBalance(STARTING_CASH, Held(n))
    /\ exits_csv = NoFile
    /\ runs = 2
    /\ pc = "entry"
    /\ tickers = <<1>>
    /\ ti = 0
    /\ scanned = << >>
    /\ buy_msgs = << >>
    /\ sell_msgs = << >>
    /\ df = NoDf
    /\ reasons = NoReasons
    /\ updated_portfolio = << >>
    /\ idx = 0
    /\ row = NoRow
    /\ exit_reason = None
    /\ to_keep = << >>
    /\ mail = NoMail

ScanTickerSized == ScanTickerOn(SizeData)

SizeNext == AdvanceClock \/ ScanTickerSized \/ BeginExit

SizeSpec == SizeInit /\ [][SizeNext]_vars

-----------------------------------------------------------------------------
(* Properties *)

(* The rows the next run would load from the ledger file. *)
LedgerRows(file) == IF file.exists /\ file.header THEN file.rows ELSE << >>

OpenTickers(file) == { r.ticker : r \in Range(LedgerRows(file)) }

(* The exit records written for the position r. *)
ExitRecordsOf(file, r) ==
    { i \in 1..Len(file.rows) :
        file.rows[i].ticker = r.ticker /\ file.rows[i].pos = r.run }

(* A step of the exit loop that has just evaluated one position. *)
EvalStep == pc = "exit" /\ pc' = "exit" /\ idx' = idx + 1

(* A step of the entry loop that has just recorded a buy. *)
BuyStep == pc = "entry" /\ pc' = "entry" /\ buys_csv' # buys_csv

(* C1: in the exit phase, a position whose fetched price series is empty   *)
(* is skipped: no exit record is written for it and it is kept, unchanged, *)
(* in the ledger that the run persists at its end.                         *)
C1_SkippedPositionKept ==
    [][ /\ (EvalStep /\ df' = EmptyDf) =>
              /\ exits_csv' = exits_csv
              /\ row' \in Range(to_keep')
        /\ (pc = "exit" /\ pc' = "email") =>
              \A r \in Range(to_keep) : r \in Range(LedgerRows(buys_csv')) ]_vars

(* C2: across runs, aborted ones included, every position that disappears  *)
(* from the persisted ledger has exactly one exit record, written before   *)
(* the removal, and no position ever has two exit records.                 *)
C2_ExactlyOneExitRecord ==
    [][ /\ \A r \in Range(LedgerRows(buys_csv)) :
              r \notin Range(LedgerRows(buys_csv')) =>
                 Cardinality(ExitRecordsOf(exits_csv, r)) = 1
        /\ \A i, j \in 1..Len(exits_csv'.rows) :
              (exits_csv'.rows[i].ticker = exits_csv'.rows[j].ticker
               /\ exits_csv'.rows[i].pos = exits_csv'.rows[j].pos) => i = j ]_vars

(* C3: the entry phase records a buy only with shares > 0 and a cost of at *)
(* most the balance available at that moment; no buy makes the balance     *)
(* negative, and the total cost of the open positions never exceeds the    *)
(* starting cash.                                                          *)
C3_BuysWithinBalance ==
    /\ [](SumCost(LedgerRows(buys_csv)) <= STARTING_CASH)
    /\ [](pc = "entry" => balance >= 0)
    /\ [][ BuyStep =>
             LET b == buys_csv'.rows[Len(buys_csv'.rows)] IN
             /\ b.shares > 0
             /\ b.price * b.shares <= balance
             /\ balance' >= 0 ]_vars

(* A signal was turned down by the cash floor after an earlier buy of the  *)
(* same pass had reduced the balance.                                      *)
C3_Witness ==
    /\ pc = "entry"
    /\ buy_msgs # << >>
    /\ reasons # NoReasons
    /\ df.kind = "bars"
    /\ buy_msgs[Len(buy_msgs)].price # df.Close
    /\ Shares(Allocation(STARTING_CASH, MAX_POSITION_SIZE), df.Close) > 0
    /\ df.Close * Shares(Allocation(STARTING_CASH, MAX_POSITION_SIZE), df.Close)
          > balance

(* C4: when a run aborts on an unhandled fault, the ledger the next run    *)
(* loads holds every position opened before the fault and holds no         *)
(* position for which an exit was recorded before the fault.               *)
C4_PartialProgressKept ==
    [][ (pc \in {"entry", "exit", "email"} /\ pc' = "aborted") =>
          /\ \A s \in Range(sell_msgs) :
                s.ticker \notin OpenTickers(buys_csv')
          /\ \A b \in Range(buy_msgs) :
                b.ticker \in OpenTickers(buys_csv')
                \/ \E s \in Range(sell_msgs) : s.ticker = b.ticker ]_vars

(* A position has just been evaluated against the exit rules on a         *)
(* non-empty series: row, df and exit_reason are those of that evaluation. *)
Evaluated == pc = "exit" /\ idx > 0 /\ df.kind = "bars"

(* The MACD line of the fetched series is below its signal line. *)
TrendDown(d) == d.trend < d.signal

(* C5: the exit rules apply in priority order: take-profit or stop-loss    *)
(* decides the reason even if max-hold or trend-reversal match too,        *)
(* max-hold decides over trend-reversal, and one evaluation produces at    *)
(* most one exit record.                                                   *)
C5_ExitPriority ==
    /\ [](Evaluated =>
            /\ TakeProfit(df.Close, row.price) => exit_reason = "Take Profit 10%"
            /\ (~TakeProfit(df.Close, row.price) /\ StopLoss(df.Close, row.price))
                  => exit_reason = "Stop Loss 7%")
    /\ [][ (EvalStep /\ df'.kind = "bars") =>
             ((/\ ~TakeProfit(df'.Close, row'.price)
               /\ ~StopLoss(df'.Close, row'.price)
               /\ MaxHold(now, row'.entry)
               /\ TrendDown(df')) => exit_reason' = MaxHoldReason) ]_vars
    /\ [][ Len(exits_csv'.rows) <= Len(exits_csv.rows) + 1 ]_vars

(* Take-profit, max-hold and trend-reversal all match one position. *)
C5_Witness ==
    /\ Evaluated
    /\ TakeProfit(df.Close, row.price)
    /\ MaxHold(now, row.entry)
    /\ TrendDown(df)
    /\ exit_reason = "Take Profit 10%"
    /\ exits_csv.rows # << >>
    /\ exits_csv.rows[Len(exits_csv.rows)].reason = "Take Profit 10%"

(* C6: a position with a non-empty series is closed with "Take Profit 10%" *)
(* exactly when close >= 1.10 * entryPrice, the boundary included;         *)
(* otherwise with "Stop Loss 7%" exactly when close <= 0.93 * entryPrice,  *)
(* the boundary included; otherwise with "Max Hold 14 days" exactly when   *)
(* now - entryDate exceeds 14 days.                                        *)
C6_ExitThresholds ==
    [][ (EvalStep /\ df'.kind = "bars") =>
          LET tp == 10 * df'.Close >= 11 * row'.price
              sl == 100 * df'.Close <= 93 * row'.price
              mh == MaxHold(now, row'.entry)
          IN  /\ exit_reason' = "Take Profit 10%" <=> tp
              /\ exit_reason' = "Stop Loss 7%" <=> (~tp /\ sl)
              /\ exit_reason' = MaxHoldReason <=> (~tp /\ ~sl /\ mh) ]_vars

(* C7: the ledger holds at most one open position per ticker, and a ticker *)
(* with an open position in the ledger is neither scanned nor bought.      *)
C7_OnePositionPerTicker ==
    /\ [](\A i, j \in 1..Len(LedgerRows(buys_csv)) :
            LedgerRows(buys_csv)[i].ticker = LedgerRows(buys_csv)[j].ticker
               => i = j)
    /\ [][ (pc = "entry" /\ Len(scanned') > Len(scanned)) =>
              scanned'[Len(scanned')] \notin OpenTickers(buys_csv) ]_vars
    /\ [][ BuyStep =>
              buys_csv'.rows[Len(buys_csv'.rows)].ticker
                 \notin OpenTickers(buys_csv) ]_vars

(* The entry loop has passed a universe ticker that has an open position   *)
(* without scanning it.                                                    *)
C7_Witness ==
    /\ pc = "entry"
    /\ ti > 0
    /\ tickers[ti] \in OpenTickers(buys_csv)
    /\ \A i \in 1..Len(scanned) : scanned[i] # tickers[ti]

FiveLabels ==
    <<"RSI<50", "MACD>Signal", "Close<=BB_Upper", "ADX>15", "Close>SMA200">>

AllFive(b) ==
    /\ b.rsi < 50
    /\ b.macd > b.macd_signal
    /\ b.Close <= b.bb_upper
    /\ b.adx > 15
    /\ b.Close > b.sma_200

(* C9: scan_indicators returns a reasons list exactly when all five        *)
(* conditions hold on the latest bar, the list is the five labels in their *)
(* fixed order, otherwise reasons is None; and run_bot records a buy only  *)
(* for a ticker whose scan returned that list.                             *)
C9_FiveConditionSignal ==
    /\ []((pc = "entry" /\ df.kind = "bars") =>
             /\ reasons = FiveLabels <=> AllFive(df)
             /\ reasons # FiveLabels => reasons = NoReasons)
    /\ []((pc = "entry" /\ df.kind # "bars") => reasons = NoReasons)
    /\ [][ BuyStep => (df'.kind = "bars" /\ AllFive(df') /\ reasons' = FiveLabels) ]_vars

(* A scan on which exactly one condition fails has returned no reasons. *)
C9_Witness ==
    /\ pc = "entry"
    /\ df.kind = "bars"
    /\ Len(Conditions(df)) = 4
    /\ reasons = NoReasons

(* C10: throughout the entry phase the balance equals the starting cash    *)
(* minus the cost of all open positions, those loaded at the start of the  *)
(* run and those bought earlier in the pass; no realised profit or loss    *)
(* enters it.                                                              *)
C10_BalanceIsCashMinusCost ==
    pc = "entry" => balance = STARTING_CASH - SumCost(LedgerRows(buys_csv))

(* A pass that started with an open position and a realised exit in the    *)
(* history has bought another position.                                    *)
C10_Witness ==
    /\ pc = "entry"
    /\ portfolio # << >>
    /\ buy_msgs # << >>
    /\ \E i \in 1..Len(exits_csv.rows) :
          exits_csv.rows[i].reason \in {"Take Profit 10%", "Stop Loss 7%"}

(* C8: the open operation of the ledger rejects a ticker that already has  *)
(* an open position and leaves the ledger unchanged, and the close         *)
(* operation rejects a ticker that has no open position: the operations    *)
(* themselves enforce this, whoever calls them.                            *)
C8_LedgerRejects ==
    [][ /\ Len(buys_csv'.rows) > Len(buys_csv.rows) =>
              buys_csv'.rows[Len(buys_csv'.rows)].ticker
                 \notin OpenTickers(buys_csv)
        /\ Len(exits_csv'.rows) > Len(exits_csv.rows) =>
              exits_csv'.rows[Len(exits_csv'.rows)].ticker
                 \in OpenTickers(buys_csv) ]_vars


(* C11: every accepted buy has shares = floor(STARTING_CASH *               *)
(* MAX_POSITION_SIZE / price), whatever the live balance is, so every open *)
(* position costs at most STARTING_CASH * MAX_POSITION_SIZE; with cash     *)
(* 10000, fraction 0.05 and price 25 the quantity is 20, and with a        *)
(* balance of 400 that buy is rejected and ledger and balance stay as      *)
(* they were.                                                              *)
C11_SizedFromStartingCash ==
    /\ [](\A r \in Range(LedgerRows(buys_csv)) :
             100 * r.price * r.shares <= STARTING_CASH * MAX_POSITION_SIZE)
    /\ [][ BuyStep =>
             LET b == buys_csv'.rows[Len(buys_csv'.rows)] IN
             /\ 100 * b.price * b.shares <= STARTING_CASH * MAX_POSITION_SIZE
             /\ STARTING_CASH * MAX_POSITION_SIZE < 100 * b.price * (b.shares + 1)
             /\ (STARTING_CASH = 10000 /\ MAX_POSITION_SIZE = 5 /\ b.price = 25)
                    => b.shares = 20 ]_vars
    /\ [][ ( /\ pc = "entry" /\ ti' = ti + 1 /\ reasons' # NoReasons
             /\ STARTING_CASH = 10000 /\ MAX_POSITION_SIZE = 5
             /\ df'.Close = 25 /\ balance = 400 )
           => (buys_csv' = buys_csv /\ balance' = balance /\ buy_msgs' = buy_msgs) ]_vars

(* The universe ticker signalled at 25 with 400 of the 10000 left, and     *)
(* nothing was bought.                                                     *)
C11_Witness ==
    /\ pc = "entry" /\ ti = 1
    /\ STARTING_CASH = 10000 /\ MAX_POSITION_SIZE = 5
    /\ reasons # NoReasons /\ df.kind = "bars" /\ df.Close = 25
    /\ balance = 400
    /\ buy_msgs = << >>
    /\ portfolio # << >>


(* C12: in the exit phase a position that meets none of the rules of lines *)
(* 165-170 and whose latest trend line is below its signal line is closed  *)
(* with the reason "MACD cross down".                                      *)
C12_TrendReversalExit ==
    ( /\ Evaluated
      /\ ~TakeProfit(df.Close, row.price)
      /\ ~StopLoss(df.Close, row.price)
      /\ ~MaxHold(now, row.entry)
      /\ TrendDown(df) )
    => /\ exit_reason = "MACD cross down"
       /\ row \notin Range(to_keep)
       /\ exits_csv.rows # << >>
       /\ exits_csv.rows[Len(exits_csv.rows)].reason = "MACD cross down"


(* The exit records appended by the current run: one per sale of           *)
(* sell_msgs, in order, at the end of the exit history.                    *)
ExitsOfRunWritten ==
    /\ Len(exits_csv.rows) >= Len(sell_msgs)
    /\ \A i \in 1..Len(sell_msgs) :
          LET e == exits_csv.rows[Len(exits_csv.rows) - Len(sell_msgs) + i] IN
          /\ e.ticker = sell_msgs[i].ticker
          /\ e.price = sell_msgs[i].price
          /\ e.reason = sell_msgs[i].reason

(* C13: within a run send_email is called only after the ledger was        *)
(* rewritten from to_keep and every exit record of the run was appended,   *)
(* and the call, delivered or failed, leaves both files as they were       *)
(* written.                                                                *)
C13_EmailAfterPersistence ==
    /\ [](pc = "email" =>
            /\ idx = Len(updated_portfolio)
            /\ buys_csv = WriteLedger(to_keep)
            /\ ExitsOfRunWritten)
    /\ [][ (mail' # mail /\ mail'.sent) => pc = "email" ]_vars
    /\ [][ (pc = "email" /\ pc' # "email") =>
             /\ pc' \in {"done", "aborted"}
             /\ buys_csv' = buys_csv
             /\ exits_csv' = exits_csv ]_vars

(* send_email failed in the first run, after that run had bought, sold     *)
(* and rewritten the ledger.                                               *)
C13_Witness ==
    /\ pc = "aborted"
    /\ runs = 1
    /\ ~mail.sent
    /\ buys_csv = WriteLedger(<< >>)
    /\ exits_csv.rows # << >>


(* A call of scan_indicators that met an empty series or a fault. *)
FaultScan == pc = "entry" /\ Len(scanned') > Len(scanned) /\ df' = NoDf

(* C14: a fault while one ticker is scanned for entry does not end the     *)
(* run: it gives no signal, leaves ledger, exit history and balance as     *)
(* they were, the ticker is not scanned again in the run, and the loop     *)
(* goes on, so that the entry phase ends only when every ticker of the     *)
(* universe was scanned or found open.                                     *)
C14_ScanFaultContained ==
    /\ [][ FaultScan =>
             /\ reasons' = NoReasons
             /\ buys_csv' = buys_csv
             /\ exits_csv' = exits_csv
             /\ balance' = balance
             /\ buy_msgs' = buy_msgs
             /\ pc' = "entry"
             /\ ti' = ti + 1 ]_vars
    /\ [](pc = "entry" =>
            /\ \A i, j \in 1..Len(scanned) : scanned[i] = scanned[j] => i = j
            /\ \A i \in 1..ti :
                  tickers[i] \in Range(scanned) \/ IsOpen(tickers[i], portfolio))
    /\ [][ (pc = "entry" /\ pc' = "exit") => ti = Len(tickers) ]_vars

(* The scan of the first of two tickers has just failed. *)
C14_Witness ==
    /\ pc = "entry"
    /\ Len(tickers) = 2 /\ ti = 1
    /\ scanned = <<tickers[1]>>
    /\ df = NoDf /\ reasons = NoReasons
    /\ portfolio # << >>
    /\ balance = STARTING_CASH - SumCost(portfolio)


(* The buys of the current run: the rows of the ledger that carry its      *)
(* number, one per line of buy_msgs and in the same order.                 *)
BuysOfRunListed ==
    LET mine == SelectSeq(buys_csv.rows, LAMBDA r : r.run = runs) IN
    /\ Len(mine) = Len(buy_msgs)
    /\ \A i \in 1..Len(mine) :
          /\ mine[i].ticker = buy_msgs[i].ticker
          /\ mine[i].price = buy_msgs[i].price
          /\ mine[i].reason = buy_msgs[i].reason

(* A run that has loaded the ledger reaches the end of run_bot, and on the  *)
(* way it rewrites the ledger and sends a summary that lists exactly the   *)
(* buys and the sales of the run (both lists empty when there were none).  *)
LoadedRunCompletes ==
    /\ (pc \in {"entry", "exit", "email"}) ~> (pc = "done" /\ mail.sent)
    /\ [](pc = "entry" => BuysOfRunListed)
    /\ [][ (pc = "email" /\ pc' = "done") =>
             /\ buys_csv = WriteLedger(to_keep)
             /\ ExitsOfRunWritten
             /\ mail' = [sent |-> TRUE, buys |-> buy_msgs, sells |-> sell_msgs] ]_vars

(* C15: a run whose only faults are unavailable data runs to completion:   *)
(* no call of run_bot ends with an exception, and every run rewrites the   *)
(* ledger and sends a summary that lists exactly its buys and its sales.   *)
C15_QuietRunCompletes ==
    /\ [](pc # "aborted")
    /\ [][ (pc \in Idle /\ runs' = runs + 1) => pc' = "entry" ]_vars
    /\ LoadedRunCompletes


(* The rows the exit loop of the current run closed. *)
SoldRows ==
    { r \in Range(updated_portfolio) :
        \E i \in 1..Len(sell_msgs) : sell_msgs[i].ticker = r.ticker }

(* The rows the entry loop of the current run appended. *)
BoughtRows == { r \in Range(LedgerRows(buys_csv)) : r.run = runs }

(* C16: at the end of a run the persisted ledger holds, field by field     *)
(* unchanged, every position of the run for which no exit rule fired, and  *)
(* the persisted positions are the positions open at the start of the run  *)
(* plus the buys of the run minus its exits.                               *)
C16_KeptPositionsCarried ==
    [][ (pc = "exit" /\ pc' = "email") =>
          /\ \A r \in Range(updated_portfolio) \ SoldRows :
                r \in Range(LedgerRows(buys_csv'))
          /\ Range(LedgerRows(buys_csv')) =
                (Range(portfolio) \cup BoughtRows) \ SoldRows ]_vars


(* The rows appended by the entry loop of the current run, in order. *)
BoughtSeq == SelectSeq(LedgerRows(buys_csv), LAMBDA r : r.run = runs)

(* C17: within one run the entry loop and the exit loop run one after the  *)
(* other and once each: no ticker is scanned after the exit loop began,    *)
(* no ticker is scanned twice, the exit loop takes every row of the ledger *)
(* as it stands after the entry loop, the buys of this run included, one   *)
(* by one and once, and the balance against which buys are tested never    *)
(* receives the proceeds of a position closed in the run.                  *)
C17_TwoSequentialPasses ==
    /\ [](pc = "entry" => idx = 0 /\ sell_msgs = << >> /\ to_keep = << >>)
    /\ [][ Len(scanned') > Len(scanned) =>
             pc = "entry" /\ pc' = "entry" /\ exits_csv' = exits_csv ]_vars
    /\ [][ pc = "exit" => pc' \in {"exit", "email", "aborted"} ]_vars
    /\ [](pc = "entry" =>
            /\ ti <= Len(tickers)
            /\ \A i, j \in 1..Len(tickers) : tickers[i] = tickers[j] => i = j
            /\ \A i, j \in 1..Len(scanned) : scanned[i] = scanned[j] => i = j
            /\ Range(scanned) \subseteq { tickers[i] : i \in 1..ti })
    /\ [][ (pc = "entry" /\ pc' = "entry" /\ ti' # ti) => ti' = ti + 1 ]_vars
    /\ [](pc = "exit" =>
            /\ updated_portfolio = LedgerRows(buys_csv)
            /\ Range(portfolio) \cup Range(BoughtSeq) = Range(updated_portfolio)
            /\ idx <= Len(updated_portfolio)
            /\ Len(to_keep) + Len(sell_msgs) <= idx)
    /\ [][ (pc = "exit" /\ pc' = "exit") =>
             /\ \/ idx' = idx /\ row' = row /\ to_keep' = to_keep
                   /\ exits_csv' = exits_csv
                \/ idx' = idx + 1 /\ row' = updated_portfolio[idx']
             /\ updated_portfolio' = updated_portfolio
             /\ buys_csv' = buys_csv ]_vars
    /\ [][ (pc = "exit" /\ pc' = "email") =>
             idx = Len(updated_portfolio) /\ balance' = balance ]_vars
    /\ [](pc \in {"entry", "exit"} =>
            balance = StartBalance(STARTING_CASH, portfolio) - SumCost(BoughtSeq))
    /\ [][ BuyStep => sell_msgs = << >> /\ exits_csv' = exits_csv ]_vars

(* The exit loop has ended after closing the position that the entry loop  *)
(* of the same run opened; the balance is still short of its cost.         *)
C17_Witness ==
    /\ pc = "exit"
    /\ idx = Len(updated_portfolio)
    /\ buy_msgs # << >> /\ sell_msgs # << >>
    /\ sell_msgs[1].ticker = buy_msgs[1].ticker
    /\ balance < STARTING_CASH


(* C18: the ledger that a completed run leaves can be loaded by the next   *)
(* run: the file carries its column line, also when no position is open,   *)
(* and the next run passes lines 129-131 with the rows of the file, and    *)
(* with the full starting cash when there are none.                        *)
C18_PersistedLedgerLoads ==
    /\ [](pc = "done" => buys_csv.exists /\ buys_csv.header /\ load_portfolio.ok)
    /\ [][ (pc = "done" /\ runs' = runs + 1) =>
             /\ pc' = "entry"
             /\ portfolio' = buys_csv.rows
             /\ (buys_csv.rows = << >> => balance' = STARTING_CASH) ]_vars

====
